---- MODULE Spec2Model ----
(***************************************************************************)
(* Real-time agent tracking of the admin dashboard.                        *)
(*                                                                         *)
(*   WebSocketService (src/src/services/WebSocketService.ts): the          *)
(*   singleton that owns the STOMP client, its reconnect bookkeeping and   *)
(*   the listener fan-out.                                                 *)
(*   AgentTracking (src/src/components/admin/AgentTracking.tsx): the       *)
(*   component that holds the agent store (`agents`), loads snapshots over *)
(*   REST and merges the streaming events into the store.                  *)
(*                                                                         *)
(* The STOMP client the service configures and drives is modelled by its   *)
(* activation state, its socket, its own reconnect timer and the           *)
(* subscriptions of the current socket; each of these is written only by   *)
(* the calls and callbacks that appear in WebSocketService.ts.             *)
(***************************************************************************)
EXTENDS Integers, Sequences, FiniteSets

VARIABLES
    \* ---- WebSocketService fields
    client,             \* this.client # null
    isConnected,        \* this.isConnected
    reconnectAttempts,  \* this.reconnectAttempts
    timers,             \* pending setTimeout callbacks of handleReconnect (their delays, oldest first)
    \* ---- the STOMP Client the service created
    clientState,        \* "INACTIVE" | "ACTIVE" | "DEACTIVATING"
    webSocket,          \* "none" | "connecting" | "open" | "disconnecting" | "closing"
    reconnector,        \* the Client's own reconnect timer (reconnectDelay) is pending
    reactivate,         \* an activate() received while DEACTIVATING waits for the close
    subscriptions,      \* topic subscriptions held on the current socket
    locationUpdateCallbacks,   \* this.locationUpdateCallbacks: callbacks in registration order
    statusUpdateCallbacks,     \* this.statusUpdateCallbacks
    connectionCallbacks,       \* this.connectionCallbacks
    issued,             \* unsubscribe functions handed out: [ch, cb] of their registration, oldest first
    \* ---- observers
    notified,           \* last value passed to notifyConnectionCallbacks ("none" before the first)
    wsConnected,        \* useState(false) of AgentTracking, written by handleConnectionChange
    \* ---- AgentTracking state
    agents,             \* useState<AgentLocation[]>: sequence of records
    retryCount,         \* useState(0)
    inflight,           \* running loadAgentLocations calls: [rc: the retryCount their closure
                        \* captured, n: automatic retries their chain has scheduled so far]
    retryTimers,        \* pending retry setTimeouts, same records
    loading,            \* useState(true)
    isRetrying,         \* useState(false)
    errorShown,         \* the last operation called showError('Connection Error', ...)
    mapView,            \* useState('overview'): "overview" | "agent-detail"
    focusedAgent,       \* useState(null): the record clicked, <<>> for null
    \* ---- MapComponent (GoogleMap)
    map,                \* map and infoWindow are set
    markersRef,         \* markersRef.current: agentId -> [position, color, title] of its Marker
    onMap,              \* Marker objects constructed on the map, per agentId
    isInitialLoad,      \* useState(true)
    zoom,               \* map.getZoom(), 0 while there is no map
    centre,             \* latitude of map.getCenter(), 0 while there is no map
    now,                \* wall clock read by new Date()
    \* ---- useInstantUpdates / useAutoRefresh
    isUpdating,         \* state.isUpdating, as the queued setState calls leave it
    closureUpdating,    \* state.isUpdating of the last render: the value the closures of
                        \* manualRefresh and the `enabled` option hold
    isRefreshingRef,    \* isRefreshingRef.current of useAutoRefresh
    intervalOn,         \* the setInterval of useAutoRefresh is running
    mountedRef,         \* mountedRef.current
    refreshes,          \* refreshData calls in flight, oldest first: "manual" | "auto"
    refreshCount,       \* state.refreshCount
    refreshError,       \* state.error # null
    \* ---- history of the last step
    op,                 \* name of the last operation
    event,              \* payload the last operation delivered to the store (<<>> if none)
    evicted,            \* agentIds the last operation removed from the store
    libCalls,           \* calls the last operation made on the STOMP client
    markerOps,          \* Marker calls of the last operation: [agentId, kind, from, to, raw]
    fit,                \* viewport fit of the last operation: "none" | "center" | "fitBounds"
    dispatch,           \* fan-out the last operation made: channel, positions that threw,
                        \* callbacks invoked in order, whether an exception left the fan-out
    unsubscribed,       \* unsubscribe functions (indices of issued) that have been called
    dropped,            \* a malformed message has been dropped
    wire,               \* frames the broker has sent on the socket and the client has not
                        \* handled yet, oldest first: [id, topic]
    sent,               \* frames the broker has sent
    lastFrame,          \* id of the frame the client handled last, 0 before the first
    deltas,             \* agentIds a streaming location update wrote while the snapshot
                        \* load that is running, or that ended in the last step, was in flight
    consecutive,        \* snapshot fetches that failed with a network error in a row
    failures,           \* transport failures since the last successful connect
    lastDelay,          \* delay of the reconnect scheduled last since the last successful connect
    down,               \* the caller's last request was disconnect()
    manual              \* a caller invoked connect() after the attempts were used up, and
                        \* the connection attempt that follows has not ended yet

wsVars    == <<client, isConnected, reconnectAttempts, timers, clientState, webSocket,
               reconnector, reactivate, subscriptions, notified, libCalls, failures,
               lastDelay, down, manual>>
loadVars  == <<retryCount, inflight, retryTimers, loading, isRetrying, consecutive>>
viewVars  == <<mapView, focusedAgent>>
mapVars   == <<map, markersRef, onMap, isInitialLoad, markerOps, fit, zoom, centre>>
orderVars == <<wire, sent, lastFrame>>
refreshVars == <<isUpdating, closureUpdating, isRefreshingRef, intervalOn, mountedRef,
                 refreshes, refreshCount, refreshError>>
storeVars == <<agents, loadVars, errorShown, now, event, evicted, viewVars, mapVars, deltas,
               orderVars, refreshVars>>
regVars   == <<locationUpdateCallbacks, statusUpdateCallbacks, connectionCallbacks, issued,
               unsubscribed>>
fanVars   == <<regVars, dispatch, wsConnected, dropped>>
vars      == <<wsVars, storeVars, fanVars, op>>

----------------------------------------------------------------------------
(* Bounds of the model *)
MaxTimers   == 3    \* pending handleReconnect timers
MaxFailures == 6    \* transport failures counted between two successful connects
MaxTime     == 1    \* last value of the wall clock
MaxInflight == 1    \* loadAgentLocations calls running at the same time
MaxChains   == 2    \* loadAgentLocations calls alive (running or waiting for their retry)
MaxRetries  == 4    \* retries one call schedules, and network failures counted in a row
MaxRegs     == 5    \* registrations made on the service, the component's three included
MaxFrames   == 3    \* frames the broker sends in one session
MaxRefreshes == 2   \* refreshData calls in flight at the same time
MaxRefreshCount == 3  \* last value of state.refreshCount

(* Program constants *)
maxReconnectAttempts == 5
BaseReconnectDelay   == 1000
maxReconnectDelay    == 30000
TopicCount           == 3

AgentIds == {"a1", "a2"}

Min(a, b) == IF a <= b THEN a ELSE b

RECURSIVE Pow2(_)
Pow2(n) == IF n <= 0 THEN 1 ELSE 2 * Pow2(n - 1)

(* delay computed by handleReconnect for the attempt number it has just set *)
ReconnectDelay(attempt) == Min(BaseReconnectDelay * Pow2(attempt - 1), maxReconnectDelay)

RemoveAt(s, i) == [k \in 1..(Len(s) - 1) |-> IF k < i THEN s[k] ELSE s[k + 1]]

----------------------------------------------------------------------------
(* The STOMP client: activate() and deactivate() *)

Activate ==
    \/ /\ clientState = "ACTIVE"           \* already active: the request is ignored
       /\ UNCHANGED <<clientState, webSocket, reconnector, reactivate>>
    \/ /\ clientState = "INACTIVE"
       /\ clientState' = "ACTIVE"
       /\ webSocket' = "connecting"
       /\ UNCHANGED <<reconnector, reactivate>>
    \/ /\ clientState = "DEACTIVATING"     \* rejected with an exception ...
       /\ UNCHANGED <<clientState, webSocket, reconnector, reactivate>>
    \/ /\ clientState = "DEACTIVATING"     \* ... or deferred until deactivation ends
       /\ reactivate' = TRUE
       /\ UNCHANGED <<clientState, webSocket, reconnector>>

Deactivate ==
    IF clientState = "INACTIVE"
    THEN UNCHANGED <<clientState, webSocket, reconnector, reactivate>>
    ELSE /\ reconnector' = FALSE
         /\ clientState' = IF webSocket = "none" THEN "INACTIVE" ELSE "DEACTIVATING"
         /\ webSocket' = CASE webSocket = "open"       -> "disconnecting"
                           [] webSocket = "connecting" -> "closing"
                           [] OTHER                    -> webSocket
         /\ UNCHANGED reactivate

----------------------------------------------------------------------------
(* WebSocketService: the listener fan-out *)

Range(s) == {s[k] : k \in 1..Len(s)}

(* a subscriber of the service other than the AgentTracking handlers; it may throw *)
Listeners == {"f"}

NoDispatch == [ch |-> "none", throwers |-> {}, delivered |-> <<>>, propagated |-> FALSE]

(* a subscriber that calls its own unsubscribe function from inside its      *)
(* callback (a listener for one event)                                       *)
OnceListeners == {"u"}

(* throwers below: the positions of the loop at which the callback throws   *)
(* callbacks.indexOf(callback), counted from 1; 0 if absent *)
IndexOf(callbacks, callback) ==
    IF \E k \in 1..Len(callbacks) : callbacks[k] = callback
    THEN CHOOSE k \in 1..Len(callbacks) :
            callbacks[k] = callback /\ \A j \in 1..(k - 1) : callbacks[j] # callback
    ELSE 0

(* the array after callbacks[k] has run: a callback of OnceListeners calls   *)
(* its unsubscribe function, which splices its first occurrence out          *)
AfterCall(callbacks, k) ==
    IF callbacks[k] \in OnceListeners
    THEN RemoveAt(callbacks, IndexOf(callbacks, callbacks[k]))
    ELSE callbacks

(* callbacks.forEach(callback => { try { callback(x) } catch { log } }) from *)
(* index k on, over the live array: the callbacks invoked in order, whether  *)
(* an exception left the loop, and the array that is left                    *)
RECURSIVE Fanout_NoCatch(_, _, _)
Fanout_NoCatch(callbacks, throwers, k) ==
    IF k > Len(callbacks)
    THEN [delivered |-> <<>>, propagated |-> FALSE, callbacks |-> callbacks]
    ELSE IF k \in throwers /\ callbacks[k] \in Listeners
         THEN [delivered |-> <<callbacks[k]>>, propagated |-> TRUE, callbacks |-> callbacks]
         ELSE LET rest == Fanout_NoCatch(AfterCall(callbacks, k), throwers, k + 1)
              IN  [delivered |-> <<callbacks[k]>> \o rest.delivered,
                   propagated |-> rest.propagated, callbacks |-> rest.callbacks]

RECURSIVE Fanout(_, _, _)
Fanout(callbacks, throwers, k) ==
    IF k > Len(callbacks)
    THEN [delivered |-> <<>>, propagated |-> FALSE, callbacks |-> callbacks]
    ELSE LET rest == Fanout(AfterCall(callbacks, k), throwers, k + 1)
         IN  [delivered |-> <<callbacks[k]>> \o rest.delivered,
              propagated |-> rest.propagated, callbacks |-> rest.callbacks]

(* notifyLocationUpdateCallbacks / notifyStatusUpdateCallbacks /             *)
(* notifyConnectionCallbacks over the array of channel ch                    *)
notifyCallbacks(ch, callbacks) ==
    \E throwers \in SUBSET {k \in 1..Len(callbacks) : callbacks[k] \in Listeners} :
        LET r == Fanout(callbacks, throwers, 1)
        IN  /\ dispatch' = [ch |-> ch, throwers |-> throwers,
                            delivered |-> r.delivered, propagated |-> r.propagated]
            /\ locationUpdateCallbacks' =
                   IF ch = "location" THEN r.callbacks ELSE locationUpdateCallbacks
            /\ statusUpdateCallbacks' =
                   IF ch = "status" THEN r.callbacks ELSE statusUpdateCallbacks
            /\ connectionCallbacks' =
                   IF ch = "connection" THEN r.callbacks ELSE connectionCallbacks
            /\ unsubscribed' = unsubscribed \cup
                   {reg \in 1..Len(issued) :
                       /\ issued[reg].ch = ch
                       /\ issued[reg].cb \in OnceListeners
                       /\ issued[reg].cb \in Range(r.delivered)}
            /\ UNCHANGED issued

(* notifyConnectionCallbacks(connected); handleConnectionChange stores the   *)
(* value in wsConnected                                                      *)
notifyConnectionCallbacks(connected) ==
    /\ notified' = connected
    /\ notifyCallbacks("connection", connectionCallbacks)
    /\ wsConnected' = IF "handleConnectionChange" \in Range(dispatch'.delivered)
                      THEN connected ELSE wsConnected
    /\ UNCHANGED dropped

Channels == {"location", "status", "connection"}

CallbacksOf(ch) ==
    CASE ch = "location"   -> locationUpdateCallbacks
      [] ch = "status"     -> statusUpdateCallbacks
      [] ch = "connection" -> connectionCallbacks

(* this.<ch>Callbacks.push(callback); the caller receives an unsubscribe function *)
Register(ch, callback) ==
    /\ Len(issued) < MaxRegs
    /\ locationUpdateCallbacks' = IF ch = "location" THEN Append(locationUpdateCallbacks, callback)
                                  ELSE locationUpdateCallbacks
    /\ statusUpdateCallbacks' = IF ch = "status" THEN Append(statusUpdateCallbacks, callback)
                                ELSE statusUpdateCallbacks
    /\ connectionCallbacks' = IF ch = "connection" THEN Append(connectionCallbacks, callback)
                              ELSE connectionCallbacks
    /\ issued' = Append(issued, [ch |-> ch, cb |-> callback])
    /\ dispatch' = NoDispatch
    /\ event' = [ch |-> ch, cb |-> callback]
    /\ UNCHANGED <<unsubscribed, wsConnected, dropped, wsVars, agents, loadVars, errorShown, now,
                   evicted, viewVars, mapVars, deltas, orderVars, refreshVars>>

onLocationUpdate(callback) == Register("location", callback) /\ op' = "onLocationUpdate"

onStatusUpdate(callback) == Register("status", callback) /\ op' = "onStatusUpdate"

onConnectionChange(callback) == Register("connection", callback) /\ op' = "onConnectionChange"

(* the unsubscribe function of the reg-th registration is called:            *)
(* index = callbacks.indexOf(callback); if (index > -1) callbacks.splice(index, 1) *)
Unsubscribe(reg) ==
    /\ reg \in 1..Len(issued)
    /\ LET ch == issued[reg].ch
           callbacks == CallbacksOf(ch)
           index == IndexOf(callbacks, issued[reg].cb)
           spliced == IF index > 0 THEN RemoveAt(callbacks, index) ELSE callbacks
       IN  /\ locationUpdateCallbacks' = IF ch = "location" THEN spliced ELSE locationUpdateCallbacks
           /\ statusUpdateCallbacks' = IF ch = "status" THEN spliced ELSE statusUpdateCallbacks
           /\ connectionCallbacks' = IF ch = "connection" THEN spliced ELSE connectionCallbacks
    /\ unsubscribed' = unsubscribed \cup {reg}
    /\ dispatch' = NoDispatch
    /\ op' = "unsubscribe"
    /\ event' = [reg |-> reg, ch |-> issued[reg].ch, cb |-> issued[reg].cb]
    /\ UNCHANGED <<issued, wsConnected, dropped, wsVars, agents, loadVars, errorShown, now, evicted,
                   viewVars, mapVars, deltas, orderVars, refreshVars>>

(* an operation that notifies nobody *)
NoFanout ==
    /\ dispatch' = NoDispatch
    /\ UNCHANGED <<regVars, wsConnected, dropped>>

----------------------------------------------------------------------------
(* WebSocketService *)

CanSchedule == reconnectAttempts >= maxReconnectAttempts \/ Len(timers) < MaxTimers

HandleReconnect ==
    IF reconnectAttempts >= maxReconnectAttempts
    THEN UNCHANGED <<reconnectAttempts, timers, lastDelay>>
    ELSE /\ reconnectAttempts' = reconnectAttempts + 1
         /\ timers' = Append(timers, ReconnectDelay(reconnectAttempts + 1))
         /\ lastDelay' = ReconnectDelay(reconnectAttempts + 1)

(* body of connect(); token: localStorage holds 'voter_admin_token' *)
ConnectBody_NoGuard(token) ==
    /\ client' = (client \/ token)
    /\ IF client'
       THEN Activate /\ libCalls' = {"activate"}
       ELSE UNCHANGED <<clientState, webSocket, reconnector, reactivate>> /\ libCalls' = {}
    /\ UNCHANGED <<isConnected, reconnectAttempts, subscriptions, notified>>

ConnectBody(token) ==
    IF isConnected
    THEN /\ libCalls' = {}
         /\ UNCHANGED <<client, clientState, webSocket, reconnector, reactivate,
                        isConnected, reconnectAttempts, subscriptions, notified>>
    ELSE /\ client' = (client \/ token)
         /\ IF client'
            THEN Activate /\ libCalls' = {"activate"}
            ELSE UNCHANGED <<clientState, webSocket, reconnector, reactivate>> /\ libCalls' = {}
         /\ UNCHANGED <<isConnected, reconnectAttempts, subscriptions, notified>>

(* the attempts are used up and nothing is left to fire: budget spent, no   *)
(* service timer pending, no socket, no disconnect() requested              *)
Exhausted ==
    /\ ~down
    /\ reconnectAttempts = maxReconnectAttempts
    /\ timers = <<>>
    /\ webSocket = "none"
    /\ ~isConnected

(* connect() called by the component: mount effect or the Connect button *)
Connect ==
    /\ \E token \in BOOLEAN : ConnectBody(token)
    /\ NoFanout
    /\ op' = "connect"
    /\ down' = FALSE
    /\ manual' = (manual \/ (Exhausted /\ client'))
    /\ UNCHANGED <<timers, failures, lastDelay, storeVars>>

(* disconnect() called by the component: effect cleanup *)
Disconnect ==
    /\ IF client
       THEN /\ Deactivate
            /\ isConnected' = FALSE
            /\ notifyConnectionCallbacks(FALSE)
            /\ libCalls' = {"deactivate"}
       ELSE /\ libCalls' = {}
            /\ NoFanout
            /\ UNCHANGED <<clientState, webSocket, reconnector, reactivate, isConnected, notified>>
    /\ op' = "disconnect"
    /\ down' = TRUE
    /\ manual' = FALSE
    /\ UNCHANGED <<client, reconnectAttempts, timers, subscriptions, failures, lastDelay, storeVars>>

(* the setTimeout callback of handleReconnect *)
TimerFires ==
    /\ \E i \in 1..Len(timers) :
         /\ timers' = RemoveAt(timers, i)
         /\ IF ~isConnected
            THEN \E token \in BOOLEAN : ConnectBody(token)
            ELSE /\ libCalls' = {}
                 /\ UNCHANGED <<client, clientState, webSocket, reconnector, reactivate,
                                isConnected, reconnectAttempts, subscriptions, notified>>
    /\ NoFanout
    /\ op' = "timer"
    /\ UNCHANGED <<failures, lastDelay, down, manual, storeVars>>

(* the Client's own reconnect timer fires (reconnectDelay > 0) *)
ClientReconnect ==
    /\ reconnector
    /\ clientState = "ACTIVE"
    /\ reconnector' = FALSE
    /\ webSocket' = "connecting"
    /\ libCalls' = {}
    /\ NoFanout
    /\ op' = "clientReconnect"
    /\ UNCHANGED <<client, isConnected, reconnectAttempts, timers, clientState, reactivate,
                   subscriptions, notified, failures, lastDelay, down, manual, storeVars>>

(* client.onConnect, followed by subscribeToTopics *)
OnConnect_NoReset ==
    /\ clientState = "ACTIVE"
    /\ webSocket = "connecting"
    /\ webSocket' = "open"
    /\ isConnected' = TRUE
    /\ notifyConnectionCallbacks(TRUE)
    /\ subscriptions' = IF client /\ isConnected' THEN subscriptions + TopicCount ELSE subscriptions
    /\ libCalls' = IF client /\ isConnected' THEN {"subscribe"} ELSE {}
    /\ failures' = 0
    /\ lastDelay' = 0
    /\ op' = "onConnect"
    /\ manual' = FALSE
    /\ UNCHANGED <<client, reconnectAttempts, timers, clientState, reconnector, reactivate, down, storeVars>>

OnConnect ==
    /\ clientState = "ACTIVE"
    /\ webSocket = "connecting"
    /\ webSocket' = "open"
    /\ isConnected' = TRUE
    /\ reconnectAttempts' = 0
    /\ notifyConnectionCallbacks(TRUE)
    /\ subscriptions' = IF client /\ isConnected' THEN subscriptions + TopicCount ELSE subscriptions
    /\ libCalls' = IF client /\ isConnected' THEN {"subscribe"} ELSE {}
    /\ failures' = 0
    /\ lastDelay' = 0
    /\ op' = "onConnect"
    /\ manual' = FALSE
    /\ UNCHANGED <<client, timers, clientState, reconnector, reactivate, down, storeVars>>

(* client.onDisconnect: the broker acknowledged the DISCONNECT frame *)
OnDisconnect ==
    /\ webSocket = "disconnecting"
    /\ webSocket' = "closing"
    /\ isConnected' = FALSE
    /\ notifyConnectionCallbacks(FALSE)
    /\ libCalls' = {}
    /\ op' = "onDisconnect"
    /\ UNCHANGED <<client, reconnectAttempts, timers, clientState, reconnector, reactivate,
                   subscriptions, failures, lastDelay, down, manual, storeVars>>

(* a failure is counted where it is first reported *)
FreshFailure == clientState = "ACTIVE" /\ webSocket \in {"connecting", "open"}

(* client.onStompError: the broker sent an ERROR frame and closes the connection *)
OnStompError ==
    /\ webSocket \in {"connecting", "open"}
    /\ CanSchedule
    /\ FreshFailure => failures < MaxFailures
    /\ webSocket' = "closing"
    /\ isConnected' = FALSE
    /\ notifyConnectionCallbacks(FALSE)
    /\ HandleReconnect
    /\ failures' = IF FreshFailure THEN failures + 1 ELSE failures
    /\ libCalls' = {}
    /\ op' = "onStompError"
    /\ manual' = IF FreshFailure THEN FALSE ELSE manual
    /\ UNCHANGED <<client, clientState, reconnector, reactivate, subscriptions, down, storeVars>>

(* client.onWebSocketError: the socket's error event; its close event follows *)
OnWebSocketError_NoClear ==
    /\ webSocket \in {"connecting", "open", "disconnecting"}
    /\ CanSchedule
    /\ FreshFailure => failures < MaxFailures
    /\ webSocket' = "closing"
    /\ notifyConnectionCallbacks(FALSE)
    /\ HandleReconnect
    /\ failures' = IF FreshFailure THEN failures + 1 ELSE failures
    /\ libCalls' = {}
    /\ op' = "onWebSocketError"
    /\ manual' = IF FreshFailure THEN FALSE ELSE manual
    /\ UNCHANGED <<client, clientState, reconnector, reactivate, subscriptions, down, storeVars,
                   isConnected>>

OnWebSocketError ==
    /\ webSocket \in {"connecting", "open", "disconnecting"}
    /\ CanSchedule
    /\ FreshFailure => failures < MaxFailures
    /\ webSocket' = "closing"
    /\ isConnected' = FALSE
    /\ notifyConnectionCallbacks(FALSE)
    /\ HandleReconnect
    /\ failures' = IF FreshFailure THEN failures + 1 ELSE failures
    /\ libCalls' = {}
    /\ op' = "onWebSocketError"
    /\ manual' = IF FreshFailure THEN FALSE ELSE manual
    /\ UNCHANGED <<client, clientState, reconnector, reactivate, subscriptions, down, storeVars>>

(* client.onWebSocketClose: the socket's close event *)
OnWebSocketClose ==
    /\ webSocket # "none"
    /\ CanSchedule
    /\ FreshFailure => failures < MaxFailures
    /\ subscriptions' = 0
    /\ IF clientState = "DEACTIVATING" /\ reactivate
       THEN clientState' = "ACTIVE" /\ webSocket' = "connecting" /\ reactivate' = FALSE
       ELSE /\ clientState' = IF clientState = "DEACTIVATING" THEN "INACTIVE" ELSE clientState
            /\ webSocket' = "none"
            /\ UNCHANGED reactivate
    /\ isConnected' = FALSE
    /\ notifyConnectionCallbacks(FALSE)
    /\ HandleReconnect
    /\ reconnector' = (clientState = "ACTIVE")
    /\ failures' = IF FreshFailure THEN failures + 1 ELSE failures
    /\ libCalls' = {}
    /\ op' = "onWebSocketClose"
    /\ manual' = IF FreshFailure THEN FALSE ELSE manual
    /\ UNCHANGED <<client, down, storeVars>>

----------------------------------------------------------------------------
InitStoreIdle ==
    /\ agents = <<>>
    /\ retryCount = 0
    /\ inflight = <<>>
    /\ retryTimers = <<>>
    /\ isRetrying = FALSE
    /\ consecutive = 0
    /\ deltas = {}
    /\ wire = <<>>
    /\ sent = 0
    /\ lastFrame = 0
    /\ isUpdating = FALSE
    /\ closureUpdating = FALSE
    /\ isRefreshingRef = FALSE
    /\ intervalOn = TRUE
    /\ mountedRef = TRUE
    /\ refreshes = <<>>
    /\ refreshCount = 0
    /\ refreshError = FALSE
    /\ errorShown = FALSE
    /\ mapView = "overview"
    /\ focusedAgent = <<>>
    /\ map = FALSE
    /\ markersRef = [a \in {} |-> <<>>]
    /\ onMap = [a \in AgentIds |-> 0]
    /\ isInitialLoad = TRUE
    /\ zoom = 0
    /\ centre = 0
    /\ markerOps = {}
    /\ fit = "none"
    /\ now = 0
    /\ event = <<>>
    /\ evicted = {}

(* nothing has registered with the service *)
InitNoListeners ==
    /\ locationUpdateCallbacks = <<>>
    /\ statusUpdateCallbacks = <<>>
    /\ connectionCallbacks = <<>>
    /\ issued = <<>>
    /\ unsubscribed = {}
    /\ dispatch = NoDispatch
    /\ dropped = FALSE

(* the mount effect of AgentTracking has registered its three handlers *)
InitMounted ==
    /\ locationUpdateCallbacks = <<"handleLocationUpdate">>
    /\ statusUpdateCallbacks = <<"handleStatusUpdate">>
    /\ connectionCallbacks = <<"handleConnectionChange">>
    /\ issued = <<[ch |-> "location", cb |-> "handleLocationUpdate"],
                  [ch |-> "status", cb |-> "handleStatusUpdate"],
                  [ch |-> "connection", cb |-> "handleConnectionChange"]>>
    /\ unsubscribed = {}
    /\ dispatch = NoDispatch
    /\ dropped = FALSE

(* the module-level singleton right after `new WebSocketService()` *)
Init ==
    /\ client \in BOOLEAN
    /\ isConnected = FALSE
    /\ reconnectAttempts = 0
    /\ timers = <<>>
    /\ clientState = "INACTIVE"
    /\ webSocket = "none"
    /\ reconnector = FALSE
    /\ reactivate = FALSE
    /\ subscriptions = 0
    /\ notified = "none"
    /\ libCalls = {}
    /\ failures = 0
    /\ lastDelay = 0
    /\ down = FALSE
    /\ manual = FALSE
    /\ op = "init"
    /\ InitStoreIdle
    /\ loading = TRUE
    /\ InitNoListeners
    /\ wsConnected = FALSE

Next ==
    \/ Connect
    \/ Disconnect
    \/ TimerFires
    \/ ClientReconnect
    \/ OnConnect
    \/ OnDisconnect
    \/ OnStompError
    \/ OnWebSocketError
    \/ OnWebSocketClose

Spec == Init /\ [][Next]_vars

TypeOK ==
    /\ client \in BOOLEAN
    /\ isConnected \in BOOLEAN
    /\ reconnectAttempts \in 0..maxReconnectAttempts
    /\ Len(timers) <= MaxTimers
    /\ clientState \in {"INACTIVE", "ACTIVE", "DEACTIVATING"}
    /\ webSocket \in {"none", "connecting", "open", "disconnecting", "closing"}
    /\ subscriptions \in {0, TopicCount}
    /\ failures \in 0..MaxFailures

----------------------------------------------------------------------------
(* AgentTracking: the agent store.  A record is a function from the names  *)
(* of the fields it carries to their values; a field the JSON object lacks *)
(* is not in the record's domain.                                          *)

Statuses      == {"ONLINE", "OFFLINE", "DISCONNECTED"}
Positions     == {1, 2}
BatteryLevels == {80}
SnapshotStatuses == {"ONLINE", "OFFLINE"}
StalePosition == 1
EventTime     == 0      \* timestamp the backend wrote into an event or a snapshot record

MAX_RETRY_ATTEMPTS == 3

Field(f, v) == [x \in {f} |-> v]

(* object spread { ...a, ...b } *)
Spread(a, b) == [f \in (DOMAIN a) \cup (DOMAIN b) |-> IF f \in DOMAIN b THEN b[f] ELSE a[f]]

WithOptional(S, f, V) == S \cup {Spread(r, Field(f, v)) : r \in S, v \in V}

Ids(list) == {list[i].agentId : i \in 1..Len(list)}

(* AgentLocationUpdate as parsed from a message on /topic/location/updates: *)
(* the sender derives both status fields from the agent's state,            *)
(* batteryLevel is optional                                                  *)
LocationPayloads ==
    WithOptional({[agentId |-> a, latitude |-> p, connectionStatus |-> st,
                   isOnline |-> (st = "ONLINE"), lastUpdate |-> EventTime] :
                      a \in AgentIds, p \in Positions, st \in Statuses},
                 "batteryLevel", BatteryLevels)

(* a message on /topic/location/disconnection: the agent's last position,   *)
(* marked DISCONNECTED, with or without the isOnline flag                    *)
DisconnectionPayloads ==
    WithOptional({[agentId |-> a, latitude |-> StalePosition, connectionStatus |-> "DISCONNECTED",
                   lastUpdate |-> EventTime] : a \in AgentIds},
                 "isOnline", {FALSE})

(* ConnectionStatusUpdate *)
StatusPayloads == {[agentId |-> a, status |-> st, timestamp |-> EventTime] : a \in AgentIds, st \in Statuses}

(* one AgentLocation of the REST snapshot, as the backend lists its agents *)
SnapshotRecords ==
    {[agentId |-> a, latitude |-> StalePosition, connectionStatus |-> st,
      isOnline |-> (st = "ONLINE"), lastUpdate |-> EventTime, batteryLevel |-> b] :
          a \in AgentIds, st \in SnapshotStatuses, b \in BatteryLevels}

(* result.data: every agent of the caller is listed once *)
Snapshots ==
    {<<>>} \cup
    UNION {{list \in [1..n -> SnapshotRecords] :
               \A i, j \in 1..n : list[i].agentId = list[j].agentId => i = j} : n \in 1..Cardinality(AgentIds)}

(* the updater handleLocationUpdate passes to setAgents *)
handleLocationUpdate_Replace(prevAgents, update, currentTime) ==
    LET updatedAgents == [i \in 1..Len(prevAgents) |->
            IF prevAgents[i].agentId = update.agentId
            THEN Spread(update, Field("lastUpdate", currentTime))
            ELSE prevAgents[i]]
    IN  IF ~\E i \in 1..Len(updatedAgents) : updatedAgents[i].agentId = update.agentId
        THEN Append(updatedAgents, Spread(update, Field("lastUpdate", currentTime)))
        ELSE updatedAgents

handleLocationUpdate_AlwaysPush(prevAgents, update, currentTime) ==
    LET updatedAgents == [i \in 1..Len(prevAgents) |->
            IF prevAgents[i].agentId = update.agentId
            THEN Spread(Spread(prevAgents[i], update), Field("lastUpdate", currentTime))
            ELSE prevAgents[i]]
    IN  Append(updatedAgents, Spread(update, Field("lastUpdate", currentTime)))

handleLocationUpdate(prevAgents, update, currentTime) ==
    LET updatedAgents == [i \in 1..Len(prevAgents) |->
            IF prevAgents[i].agentId = update.agentId
            THEN Spread(Spread(prevAgents[i], update), Field("lastUpdate", currentTime))
            ELSE prevAgents[i]]
    IN  IF ~\E i \in 1..Len(updatedAgents) : updatedAgents[i].agentId = update.agentId
        THEN Append(updatedAgents, Spread(update, Field("lastUpdate", currentTime)))
        ELSE updatedAgents

(* the updater handleStatusUpdate passes to setAgents *)
handleStatusUpdate_Insert(prevAgents, update, currentTime) ==
    IF \E i \in 1..Len(prevAgents) : prevAgents[i].agentId = update.agentId
    THEN [i \in 1..Len(prevAgents) |->
            IF prevAgents[i].agentId = update.agentId
            THEN Spread(prevAgents[i], [connectionStatus |-> update.status,
                                        isOnline |-> (update.status = "ONLINE"),
                                        lastUpdate |-> currentTime])
            ELSE prevAgents[i]]
    ELSE Append(prevAgents, [agentId |-> update.agentId, connectionStatus |-> update.status,
                             isOnline |-> (update.status = "ONLINE"), lastUpdate |-> currentTime])

handleStatusUpdate(prevAgents, update, currentTime) ==
    [i \in 1..Len(prevAgents) |->
        IF prevAgents[i].agentId = update.agentId
        THEN Spread(prevAgents[i], [connectionStatus |-> update.status,
                                    isOnline |-> (update.status = "ONLINE"),
                                    lastUpdate |-> currentTime])
        ELSE prevAgents[i]]

(* setAgents(result.data || []) of a successful load *)
snapshotLoaded_Merge(prevAgents, data) ==
    data \o SelectSeq(prevAgents, LAMBDA r : r.agentId \notin Ids(data))

snapshotLoaded_KeepStore(prevAgents, data) ==
    [k \in 1..Len(data) |->
        IF data[k].agentId \in Ids(prevAgents)
        THEN CHOOSE r \in {prevAgents[i] : i \in 1..Len(prevAgents)} : r.agentId = data[k].agentId
        ELSE data[k]]

snapshotLoaded(prevAgents, data) == data

(* setAgents([]) of a load that gave up *)
loadFailed(prevAgents) == <<>>

(* deltas: the step is a location update for agent id, recorded where the   *)
(* race of updates and snapshots is followed / any other step of the store  *)
DeltaSeen(id) == deltas' = IF inflight # <<>> THEN deltas \cup {id} ELSE {}

NoDelta == deltas' = IF inflight # <<>> THEN deltas ELSE {}

----------------------------------------------------------------------------
(* MapComponent of GoogleMap.  Coordinates are counted in millionths of a   *)
(* degree, so the fifth decimal place is the tens digit.                    *)

(* Math.round(x * 100000) / 100000 *)
Round5(x) == ((x + 5) \div 10) * 10

(* one element of processedAgents *)
Processed(agent) == Spread(agent, Field("latitude", Round5(agent.latitude)))

(* the Marker the effect builds or updates for a processed agent *)
MarkerOf(agent) ==
    [position |-> agent.latitude,
     color    |-> IF agent.connectionStatus = "ONLINE"
                     \/ ("isOnline" \in DOMAIN agent /\ agent.isOnline)
                  THEN "green" ELSE "red",
     title    |-> agent.connectionStatus]

(* markersRef.current after processedAgents.forEach from position k on *)
RECURSIVE SyncMarkers(_, _, _)
SyncMarkers(ref, list, k) ==
    IF k > Len(list)
    THEN ref
    ELSE LET agent == Processed(list[k])
         IN  IF agent.latitude = 0
             THEN SyncMarkers(ref, list, k + 1)
             ELSE SyncMarkers([a \in (DOMAIN ref) \cup {agent.agentId} |->
                                  IF a = agent.agentId THEN MarkerOf(agent) ELSE ref[a]],
                              list, k + 1)

(* agents for which the effect takes the branch `new google.maps.Marker` *)
NewMarkers_Moved(ref, list) ==
    {list[k].agentId : k \in {j \in 1..Len(list) :
        /\ Round5(list[j].latitude) # 0
        /\ \/ list[j].agentId \notin DOMAIN ref
           \/ ref[list[j].agentId].position # Round5(list[j].latitude)}}

NewMarkers(ref, list) ==
    {list[k].agentId : k \in {j \in 1..Len(list) :
        /\ Round5(list[j].latitude) # 0
        /\ list[j].agentId \notin DOMAIN ref}}

(* latitude the list holds for agent a, 0 if it holds none *)
RawOf(list, a) ==
    IF a \in Ids(list) THEN (CHOOSE r \in Range(list) : r.agentId = a).latitude ELSE 0

(* the marker effect, run with the list `next` after a render that showed `prev` *)
MarkerEffect(prev, next) ==
    /\ markersRef' = SyncMarkers(markersRef, next, 1)
    /\ onMap' = [a \in AgentIds |->
                    IF a \in NewMarkers(markersRef, next) THEN onMap[a] + 1 ELSE onMap[a]]
    /\ markerOps' = {[agentId |-> a,
                      kind |-> IF a \in NewMarkers(markersRef, next) THEN "create" ELSE "update",
                      from |-> IF a \in DOMAIN markersRef THEN markersRef[a].position ELSE 0,
                      to   |-> Round5(RawOf(next, a)),
                      raw  |-> <<RawOf(prev, a), RawOf(next, a)>>] :
                        a \in {x \in Ids(next) : Round5(RawOf(next, x)) # 0}}

(* latitude of the default value of the center prop *)
DefaultCenter == 28613900

(* the center prop AgentTracking passes, the default taken for undefined *)
CenterProp(focus) ==
    IF focus # <<>> /\ "latitude" \in DOMAIN focus THEN focus.latitude ELSE DefaultCenter

(* the zoom prop AgentTracking passes *)
ZoomProp(focus) == IF focus # <<>> THEN 15 ELSE 10

(* the render that follows a change of the agents list or of the view: the  *)
(* marker effect, then the centre effect, which runs on every render since  *)
(* the center prop is a fresh object each time                              *)
RenderView(next, focus) ==
    /\ IF map
       THEN /\ MarkerEffect(agents, next)
            /\ centre' = CenterProp(focus)
            /\ zoom' = ZoomProp(focus)
       ELSE markerOps' = {} /\ UNCHANGED <<markersRef, onMap, zoom, centre>>
    /\ fit' = "none"
    /\ UNCHANGED <<map, isInitialLoad>>

Render(next) == RenderView(next, focusedAgent)

NoRender ==
    /\ markerOps' = {}
    /\ fit' = "none"
    /\ UNCHANGED <<map, markersRef, onMap, isInitialLoad, zoom, centre>>

(* the bounds-fitting effect: what it asks of the map for the markers it finds *)
FitOperation(ref) ==
    CASE Cardinality(DOMAIN ref) = 0 -> "none"
      [] Cardinality(DOMAIN ref) = 1 -> "center"
      [] OTHER                       -> "fitBounds"

(* zoom levels fitBounds may choose for the bounds it is given *)
FitZooms == {14, 18}

SingleMarkerZoom == 15
MaxFitZoom       == 16

MarkerPositions(ref) == {ref[a].position : a \in DOMAIN ref}

(* centre of the LatLngBounds extended by every marker *)
BoundsCenter(ref) ==
    LET lo == CHOOSE x \in MarkerPositions(ref) : \A y \in MarkerPositions(ref) : x <= y
        hi == CHOOSE x \in MarkerPositions(ref) : \A y \in MarkerPositions(ref) : x >= y
    IN  (lo + hi) \div 2

(* the Maps script has loaded: the map is created with the props' centre    *)
(* and zoom; the render that follows runs the marker effect, the            *)
(* bounds-fitting effect and the centre effect.  If the fit found a marker  *)
(* it clears isInitialLoad, and the render this causes runs the fit again   *)
(* and, when the center prop is the default (a fresh object), the centre    *)
(* effect after it.  fitBounds may move the viewport at once or later       *)
(* (applied): at once, the centre effect overwrites it; later, the          *)
(* bounds_changed listener sees its zoom.                                   *)
InitializeMap ==
    /\ ~map
    /\ map' = TRUE
    /\ MarkerEffect(agents, agents)
    /\ fit' = FitOperation(markersRef')
    /\ isInitialLoad' = IF fit' = "none" THEN isInitialLoad ELSE FALSE
    /\ CASE fit' = "none" ->
             centre' = CenterProp(focusedAgent) /\ zoom' = ZoomProp(focusedAgent)
         [] fit' = "center" ->
             IF focusedAgent = <<>>
             THEN centre' = CenterProp(focusedAgent) /\ zoom' = ZoomProp(focusedAgent)
             ELSE /\ centre' = CHOOSE x \in MarkerPositions(markersRef') : TRUE
                  /\ zoom' = SingleMarkerZoom
         [] OTHER ->
             \E z \in FitZooms, applied \in {"at once", "later"} :
                 IF focusedAgent = <<>> /\ applied = "at once"
                 THEN centre' = CenterProp(focusedAgent) /\ zoom' = ZoomProp(focusedAgent)
                 ELSE /\ centre' = BoundsCenter(markersRef')
                      /\ zoom' = Min(z, MaxFitZoom)
    /\ op' = "initializeMap"
    /\ event' = <<>>
    /\ evicted' = {}
    /\ errorShown' = FALSE
    /\ NoFanout
    /\ UNCHANGED <<agents, loadVars, now, wsVars, viewVars>>
    /\ NoDelta
    /\ UNCHANGED <<orderVars, refreshVars>>

(* a name in the agent list or a marker is clicked *)
handleAgentNameClick(agent) ==
    /\ agent \in Range(agents)
    /\ focusedAgent' = agent
    /\ mapView' = "agent-detail"
    /\ RenderView(agents, agent)
    /\ op' = "agentClick"
    /\ event' = <<>>
    /\ evicted' = {}
    /\ errorShown' = FALSE
    /\ NoFanout
    /\ UNCHANGED <<agents, loadVars, now, wsVars>>
    /\ NoDelta
    /\ UNCHANGED <<orderVars, refreshVars>>

(* the Back to Overview button, shown in the agent-detail view *)
handleBackToOverview ==
    /\ mapView = "agent-detail"
    /\ mapView' = "overview"
    /\ focusedAgent' = <<>>
    /\ RenderView(agents, <<>>)
    /\ op' = "backToOverview"
    /\ event' = <<>>
    /\ evicted' = {}
    /\ errorShown' = FALSE
    /\ NoFanout
    /\ UNCHANGED <<agents, loadVars, now, wsVars>>
    /\ NoDelta
    /\ UNCHANGED <<orderVars, refreshVars>>

----------------------------------------------------------------------------
Delivering == isConnected /\ webSocket = "open" /\ subscriptions > 0

(* a message on /topic/location/updates reaches handleLocationUpdate *)
LocationDispatch(update) ==
    /\ Delivering
    /\ notifyCallbacks("location", locationUpdateCallbacks)
    /\ agents' = IF "handleLocationUpdate" \in Range(dispatch'.delivered)
                 THEN handleLocationUpdate(agents, update, now) ELSE agents
    /\ op' = "location"
    /\ event' = update
    /\ evicted' = Ids(agents) \ Ids(agents')
    /\ errorShown' = FALSE
    /\ Render(agents')
    /\ UNCHANGED <<loadVars, now, wsVars, wsConnected, dropped, viewVars>>

(* a frame of /topic/location/updates arrives and is handled at once *)
LocationMessage(update) ==
    LocationDispatch(update) /\ NoDelta /\ UNCHANGED <<orderVars, refreshVars>>

(* a message on /topic/location/disconnection reaches handleLocationUpdate *)
DisconnectionDispatch(update) ==
    /\ Delivering
    /\ notifyCallbacks("location", locationUpdateCallbacks)
    /\ agents' = IF "handleLocationUpdate" \in Range(dispatch'.delivered)
                 THEN handleLocationUpdate(agents, update, now) ELSE agents
    /\ op' = "disconnection"
    /\ event' = update
    /\ evicted' = Ids(agents) \ Ids(agents')
    /\ errorShown' = FALSE
    /\ Render(agents')
    /\ UNCHANGED <<loadVars, now, wsVars, wsConnected, dropped, viewVars>>

(* a frame of /topic/location/disconnection arrives and is handled at once *)
DisconnectionMessage(update) ==
    DisconnectionDispatch(update) /\ NoDelta /\ UNCHANGED <<orderVars, refreshVars>>

(* a message on /topic/location/status reaches handleStatusUpdate *)
StatusDispatch(update) ==
    /\ Delivering
    /\ notifyCallbacks("status", statusUpdateCallbacks)
    /\ agents' = IF "handleStatusUpdate" \in Range(dispatch'.delivered)
                 THEN handleStatusUpdate(agents, update, now) ELSE agents
    /\ op' = "status"
    /\ event' = update
    /\ evicted' = Ids(agents) \ Ids(agents')
    /\ errorShown' = FALSE
    /\ Render(agents')
    /\ UNCHANGED <<loadVars, now, wsVars, wsConnected, dropped, viewVars>>

(* a frame of /topic/location/status arrives and is handled at once *)
StatusMessage(update) ==
    StatusDispatch(update) /\ NoDelta /\ UNCHANGED <<orderVars, refreshVars>>

(* a message whose body JSON.parse rejects arrives on one of the three      *)
(* topics: the catch of the subscription callback logs it                   *)
MalformedMessage_Notify(topic) ==
    /\ Delivering
    /\ notifyCallbacks(IF topic = "status" THEN "status" ELSE "location",
                       IF topic = "status" THEN statusUpdateCallbacks ELSE locationUpdateCallbacks)
    /\ dropped' = TRUE
    /\ op' = "malformed"
    /\ event' = [topic |-> topic]
    /\ evicted' = {}
    /\ errorShown' = FALSE
    /\ NoRender
    /\ UNCHANGED <<agents, loadVars, now, wsVars, wsConnected, viewVars>>
    /\ NoDelta
    /\ UNCHANGED <<orderVars, refreshVars>>

MalformedMessage(topic) ==
    /\ Delivering
    /\ dispatch' = NoDispatch
    /\ dropped' = TRUE
    /\ op' = "malformed"
    /\ event' = [topic |-> topic]
    /\ evicted' = {}
    /\ errorShown' = FALSE
    /\ NoRender
    /\ UNCHANGED <<agents, loadVars, now, wsVars, regVars, wsConnected, viewVars>>
    /\ NoDelta
    /\ UNCHANGED <<orderVars, refreshVars>>

(* loadAgentLocations() called by the mount effect: the function of the    *)
(* first render, whose closure holds retryCount = 0                         *)
LoadStart ==
    /\ Len(inflight) < MaxInflight
    /\ Len(inflight) + Len(retryTimers) < MaxChains
    /\ loading' = TRUE
    /\ retryCount' = 0
    /\ inflight' = Append(inflight, [rc |-> 0, n |-> 0])
    /\ op' = "load"
    /\ event' = <<>>
    /\ evicted' = {}
    /\ errorShown' = FALSE
    /\ NoFanout
    /\ NoRender
    /\ UNCHANGED <<agents, retryTimers, isRetrying, consecutive, now, wsVars, viewVars>>
    /\ NoDelta
    /\ UNCHANGED <<orderVars, refreshVars>>

(* wsConnected as the callback of the fallback setInterval reads it: the     *)
(* mount effect runs once, so the callback keeps the first render's value   *)
wsConnectedAtMount == FALSE

(* a tick of the fallback interval: if (!wsConnected) loadAgentLocations()  *)
PollTick ==
    /\ IF ~wsConnectedAtMount
       THEN /\ Len(inflight) < MaxInflight
            /\ Len(inflight) + Len(retryTimers) < MaxChains
            /\ loading' = TRUE
            /\ retryCount' = 0
            /\ inflight' = Append(inflight, [rc |-> 0, n |-> 0])
       ELSE UNCHANGED <<loading, retryCount, inflight>>
    /\ op' = "poll"
    /\ event' = <<>>
    /\ evicted' = {}
    /\ errorShown' = FALSE
    /\ NoFanout
    /\ NoRender
    /\ UNCHANGED <<agents, retryTimers, isRetrying, consecutive, now, wsVars, viewVars>>
    /\ NoDelta
    /\ UNCHANGED <<orderVars, refreshVars>>

(* the Refresh button, onClick={loadAgentLocations}: the function of the    *)
(* current render is called with the click event as isRetryAttempt          *)
LoadRefresh ==
    /\ ~(loading \/ isRetrying)
    /\ Len(inflight) < MaxInflight
    /\ Len(inflight) + Len(retryTimers) < MaxChains
    /\ isRetrying' = TRUE
    /\ inflight' = Append(inflight, [rc |-> retryCount, n |-> 0])
    /\ op' = "refresh"
    /\ event' = <<>>
    /\ evicted' = {}
    /\ errorShown' = FALSE
    /\ NoFanout
    /\ NoRender
    /\ UNCHANGED <<agents, retryCount, retryTimers, loading, consecutive, now, wsVars, viewVars>>
    /\ NoDelta
    /\ UNCHANGED <<orderVars, refreshVars>>

(* the i-th retry timer fires: loadAgentLocations(true) of the closure that *)
(* scheduled it                                                             *)
RetryFires(i) ==
    /\ i \in 1..Len(retryTimers)
    /\ Len(inflight) < MaxInflight
    /\ retryTimers' = RemoveAt(retryTimers, i)
    /\ inflight' = Append(inflight, retryTimers[i])
    /\ isRetrying' = TRUE
    /\ op' = "retry"
    /\ event' = <<>>
    /\ evicted' = {}
    /\ errorShown' = FALSE
    /\ NoFanout
    /\ NoRender
    /\ UNCHANGED <<agents, retryCount, loading, consecutive, now, wsVars, viewVars>>
    /\ NoDelta
    /\ UNCHANGED <<orderVars, refreshVars>>

(* the fetch of the i-th running load answers ok with success = true *)
LoadSucceeds(i, data) ==
    /\ i \in 1..Len(inflight)
    /\ inflight' = RemoveAt(inflight, i)
    /\ agents' = snapshotLoaded(agents, data)
    /\ retryCount' = 0
    /\ loading' = FALSE
    /\ isRetrying' = FALSE
    /\ consecutive' = 0
    /\ op' = "loadOk"
    /\ event' = data
    /\ evicted' = Ids(agents) \ Ids(agents')
    /\ errorShown' = FALSE
    /\ NoFanout
    /\ Render(agents')
    /\ UNCHANGED <<retryTimers, now, wsVars, viewVars>>
    /\ NoDelta
    /\ UNCHANGED <<orderVars, refreshVars>>

(* the i-th running load throws: name = "AbortError" for the 10 s timeout,  *)
(* "Error" for a failed request or an answer that is not a success          *)
LoadFails_RetryAbort(i, name) ==
    /\ i \in 1..Len(inflight)
    /\ name # "AbortError" => consecutive < MaxRetries
    /\ inflight' = RemoveAt(inflight, i)
    /\ IF inflight[i].rc < MAX_RETRY_ATTEMPTS
       THEN /\ retryCount < MaxRetries
            /\ inflight[i].n < MaxRetries
            /\ retryCount' = retryCount + 1
            /\ retryTimers' = Append(retryTimers, [rc |-> inflight[i].rc, n |-> inflight[i].n + 1])
            /\ op' = "loadRetry"
            /\ errorShown' = FALSE
            /\ UNCHANGED agents
       ELSE /\ errorShown' = TRUE
            /\ agents' = loadFailed(agents)
            /\ op' = "loadFail"
            /\ UNCHANGED <<retryCount, retryTimers>>
    /\ loading' = FALSE
    /\ isRetrying' = FALSE
    /\ consecutive' = IF name = "AbortError" THEN 0 ELSE consecutive + 1
    /\ event' = [name |-> name, rc |-> inflight[i].rc, n |-> inflight[i].n]
    /\ evicted' = Ids(agents) \ Ids(agents')
    /\ NoFanout
    /\ Render(agents')
    /\ UNCHANGED <<now, wsVars, viewVars>>
    /\ NoDelta
    /\ UNCHANGED <<orderVars, refreshVars>>

LoadFails(i, name) ==
    /\ i \in 1..Len(inflight)
    /\ name # "AbortError" => consecutive < MaxRetries
    /\ inflight' = RemoveAt(inflight, i)
    /\ IF inflight[i].rc < MAX_RETRY_ATTEMPTS /\ name # "AbortError"
       THEN /\ retryCount < MaxRetries
            /\ inflight[i].n < MaxRetries
            /\ retryCount' = retryCount + 1
            /\ retryTimers' = Append(retryTimers, [rc |-> inflight[i].rc, n |-> inflight[i].n + 1])
            /\ op' = "loadRetry"
            /\ errorShown' = FALSE
            /\ UNCHANGED agents
       ELSE /\ errorShown' = TRUE
            /\ agents' = loadFailed(agents)
            /\ op' = "loadFail"
            /\ UNCHANGED <<retryCount, retryTimers>>
    /\ loading' = FALSE
    /\ isRetrying' = FALSE
    /\ consecutive' = IF name = "AbortError" THEN 0 ELSE consecutive + 1
    /\ event' = [name |-> name, rc |-> inflight[i].rc, n |-> inflight[i].n]
    /\ evicted' = Ids(agents) \ Ids(agents')
    /\ NoFanout
    /\ Render(agents')
    /\ UNCHANGED <<now, wsVars, viewVars>>
    /\ NoDelta
    /\ UNCHANGED <<orderVars, refreshVars>>

(* time passes *)
Tick ==
    /\ now < MaxTime
    /\ now' = now + 1
    /\ op' = "tick"
    /\ event' = <<>>
    /\ evicted' = {}
    /\ errorShown' = FALSE
    /\ NoFanout
    /\ NoRender
    /\ UNCHANGED <<agents, loadVars, wsVars, viewVars>>
    /\ NoDelta
    /\ UNCHANGED <<orderVars, refreshVars>>

(* the component is mounted, its first load has ended and the stream is up *)
StoreInit ==
    /\ client = TRUE
    /\ isConnected = TRUE
    /\ reconnectAttempts = 0
    /\ timers = <<>>
    /\ clientState = "ACTIVE"
    /\ webSocket = "open"
    /\ reconnector = FALSE
    /\ reactivate = FALSE
    /\ subscriptions = TopicCount
    /\ notified = TRUE
    /\ libCalls = {}
    /\ failures = 0
    /\ lastDelay = 0
    /\ down = FALSE
    /\ manual = FALSE
    /\ op = "init"
    /\ InitStoreIdle
    /\ loading = FALSE
    /\ InitMounted
    /\ wsConnected = TRUE

StoreNext ==
    \/ \E update \in LocationPayloads : LocationMessage(update)
    \/ \E update \in DisconnectionPayloads : DisconnectionMessage(update)
    \/ \E update \in StatusPayloads : StatusMessage(update)
    \/ LoadStart
    \/ \E i \in 1..Len(inflight), data \in Snapshots : LoadSucceeds(i, data)
    \/ \E i \in 1..Len(inflight) : LoadFails(i, "AbortError")
    \/ Tick

StoreSpec == StoreInit /\ [][StoreNext]_vars

(* streaming location updates racing snapshot loads: which agents an update *)
(* wrote while a load was in flight is recorded                             *)
LocationWhileLoading(update) ==
    LocationDispatch(update) /\ DeltaSeen(update.agentId) /\ UNCHANGED <<orderVars, refreshVars>>

RaceNext ==
    \/ \E update \in LocationPayloads : LocationWhileLoading(update)
    \/ LoadStart
    \/ \E i \in 1..Len(inflight), data \in Snapshots : LoadSucceeds(i, data)
    \/ \E i \in 1..Len(inflight) : LoadFails(i, "AbortError")

RaceSpec == StoreInit /\ [][RaceNext]_vars

(* the snapshot loader alone: the endpoint answers or fails with a network  *)
(* error, the user may press Refresh                                        *)
ShortSnapshots == {data \in Snapshots : Len(data) <= 1}

LoadNext ==
    \/ LoadStart
    \/ LoadRefresh
    \/ \E i \in 1..Len(retryTimers) : RetryFires(i)
    \/ \E i \in 1..Len(inflight), data \in ShortSnapshots : LoadSucceeds(i, data)
    \/ \E i \in 1..Len(inflight) : LoadFails(i, "Error")

LoadSpec == StoreInit /\ [][LoadNext]_vars

(* the fallback poll next to a stream that connects, drops and reconnects   *)
PollInit ==
    /\ client = TRUE
    /\ isConnected = FALSE
    /\ reconnectAttempts = 0
    /\ timers = <<>>
    /\ clientState = "ACTIVE"
    /\ webSocket = "connecting"
    /\ reconnector = FALSE
    /\ reactivate = FALSE
    /\ subscriptions = 0
    /\ notified = "none"
    /\ libCalls = {}
    /\ failures = 0
    /\ lastDelay = 0
    /\ down = FALSE
    /\ manual = FALSE
    /\ op = "init"
    /\ InitStoreIdle
    /\ loading = FALSE
    /\ InitMounted
    /\ wsConnected = FALSE

PollNext ==
    \/ OnConnect
    \/ OnWebSocketClose
    \/ ClientReconnect
    \/ TimerFires
    \/ PollTick
    \/ \E i \in 1..Len(inflight), data \in ShortSnapshots : LoadSucceeds(i, data)

PollSpec == PollInit /\ [][PollNext]_vars

(* the map next to the store: positions that differ in the sixth decimal    *)
(* place only, and one that differs in the fifth                            *)
MapPositions == {28613896, 28613904, 28613950}

MapStatuses == {"ONLINE", "OFFLINE"}

FarPosition == 28613950

(* agent a1 moves and changes status, the other agents report one position *)
MapPayloads ==
    {u \in {[agentId |-> a, latitude |-> p, connectionStatus |-> st, isOnline |-> (st = "ONLINE"),
             lastUpdate |-> EventTime] : a \in AgentIds, p \in MapPositions, st \in MapStatuses} :
        u.agentId = "a1" \/ (u.latitude = FarPosition /\ u.connectionStatus = "ONLINE")}

MapSnapshots == {<<>>} \cup {<<r>> : r \in {u \in MapPayloads : u.latitude = FarPosition}}

MapNext ==
    \/ \E update \in MapPayloads : LocationMessage(update)
    \/ LoadStart
    \/ \E i \in 1..Len(inflight), data \in MapSnapshots : LoadSucceeds(i, data)
    \/ \E agent \in Range(agents) : handleAgentNameClick(agent)
    \/ handleBackToOverview
    \/ InitializeMap

MapSpec == StoreInit /\ [][MapNext]_vars

(* the service and its subscribers: AgentTracking's handlers and any other  *)
(* caller of onLocationUpdate / onStatusUpdate / onConnectionChange         *)
Topics == {"updates", "status", "disconnection"}

ListenerLocation == [agentId |-> "a1", latitude |-> 2, connectionStatus |-> "ONLINE",
                     isOnline |-> TRUE, lastUpdate |-> EventTime]

ListenerStatus == [agentId |-> "a1", status |-> "OFFLINE", timestamp |-> EventTime]

(* registrations made by the other subscribers; AgentTracking calls its own *)
(* unsubscribe functions in the cleanup of the mount effect only            *)
OtherRegs == {reg \in 1..Len(issued) : issued[reg].cb \in Listeners}

ListenerNext ==
    \/ \E callback \in Listeners : onLocationUpdate(callback)
    \/ \E callback \in Listeners : onStatusUpdate(callback)
    \/ \E callback \in Listeners : onConnectionChange(callback)
    \/ \E reg \in OtherRegs : Unsubscribe(reg)
    \/ LocationMessage(ListenerLocation)
    \/ StatusMessage(ListenerStatus)
    \/ \E topic \in Topics : MalformedMessage(topic)
    \/ OnWebSocketClose
    \/ ClientReconnect
    \/ OnConnect

ListenerSpec == StoreInit /\ [][ListenerNext]_vars

----------------------------------------------------------------------------
(* useInstantUpdates over useAutoRefresh.  A closure sees the state of the  *)
(* render that created it; a ref is read and written at once.               *)

idleVars == <<wsVars, fanVars, agents, loadVars, errorShown, now, evicted, viewVars, mapVars,
              deltas, orderVars>>

enableAutoRefresh == TRUE

(* body of the manualRefresh closure of the last render, up to its await:   *)
(* origin is who called it                                                  *)
StartRefresh(origin) ==
    IF closureUpdating
    THEN UNCHANGED <<isUpdating, refreshes, refreshError>>
    ELSE /\ isUpdating' = TRUE
         /\ refreshError' = FALSE
         /\ refreshes' = Append(refreshes, origin)

(* the component calls the manualRefresh it got from the last render *)
ManualRefresh ==
    /\ mountedRef
    /\ Len(refreshes) < MaxRefreshes
    /\ StartRefresh("manual")
    /\ op' = "manualRefresh"
    /\ event' = <<>>
    /\ UNCHANGED <<closureUpdating, isRefreshingRef, intervalOn, mountedRef, refreshCount, idleVars>>

(* the interval fires: executeRefresh of the last render, up to its await *)
AutoTick ==
    /\ intervalOn
    /\ Len(refreshes) < MaxRefreshes
    /\ IF isRefreshingRef
       THEN UNCHANGED <<isUpdating, refreshes, refreshError, isRefreshingRef>>
       ELSE /\ StartRefresh("auto")
            /\ isRefreshingRef' = ~closureUpdating
    /\ op' = "autoTick"
    /\ event' = <<>>
    /\ UNCHANGED <<closureUpdating, intervalOn, mountedRef, refreshCount, idleVars>>

(* the i-th running refreshData settles; ok: it resolved *)
RefreshEnds(i, ok) ==
    /\ i \in 1..Len(refreshes)
    /\ ok => refreshCount < MaxRefreshCount
    /\ refreshes' = RemoveAt(refreshes, i)
    /\ isRefreshingRef' = IF refreshes[i] = "auto" THEN FALSE ELSE isRefreshingRef
    /\ IF mountedRef
       THEN /\ isUpdating' = FALSE
            /\ refreshCount' = IF ok THEN refreshCount + 1 ELSE refreshCount
            /\ refreshError' = IF ok THEN refreshError ELSE TRUE
       ELSE UNCHANGED <<isUpdating, refreshCount, refreshError>>
    /\ op' = "refreshEnd"
    /\ event' = [origin |-> refreshes[i], ok |-> ok]
    /\ UNCHANGED <<closureUpdating, intervalOn, mountedRef, idleVars>>

(* React renders the component again after a change of state.isUpdating:    *)
(* new closures, and the interval effect runs with the new `enabled`        *)
Rerender ==
    /\ mountedRef
    /\ closureUpdating # isUpdating
    /\ closureUpdating' = isUpdating
    /\ intervalOn' = (enableAutoRefresh /\ ~isUpdating)
    /\ op' = "rerender"
    /\ event' = <<>>
    /\ UNCHANGED <<isUpdating, isRefreshingRef, mountedRef, refreshes, refreshCount,
                   refreshError, idleVars>>

(* the component unmounts: cleanup of the effects *)
Unmount ==
    /\ mountedRef
    /\ mountedRef' = FALSE
    /\ intervalOn' = FALSE
    /\ op' = "unmount"
    /\ event' = <<>>
    /\ UNCHANGED <<isUpdating, closureUpdating, isRefreshingRef, refreshes, refreshCount,
                   refreshError, idleVars>>

RefreshNext ==
    \/ ManualRefresh
    \/ AutoTick
    \/ \E i \in 1..Len(refreshes), ok \in BOOLEAN : RefreshEnds(i, ok)
    \/ Rerender
    \/ Unmount

RefreshSpec == StoreInit /\ [][RefreshNext]_vars

----------------------------------------------------------------------------
(* One streaming session: the broker sends frames on the socket, the client *)
(* hands each to the callback of its subscription, which parses it and runs *)
(* the fan-out before the next frame is looked at.                          *)

ListenerDisconnection == [agentId |-> "a1", latitude |-> StalePosition,
                          connectionStatus |-> "DISCONNECTED", lastUpdate |-> EventTime]

(* the broker publishes on one of the three subscribed topics *)
BrokerSends(topic) ==
    /\ Delivering
    /\ sent < MaxFrames
    /\ sent' = sent + 1
    /\ wire' = Append(wire, [id |-> sent + 1, topic |-> topic])
    /\ op' = "send"
    /\ event' = <<>>
    /\ evicted' = {}
    /\ errorShown' = FALSE
    /\ NoFanout
    /\ NoRender
    /\ NoDelta
    /\ UNCHANGED <<agents, loadVars, now, wsVars, viewVars, lastFrame, refreshVars>>

(* the client reads the next frame off the socket *)
Deliver_Newest ==
    /\ wire # <<>>
    /\ LET frame == wire[Len(wire)]
       IN  /\ wire' = SubSeq(wire, 1, Len(wire) - 1)
           /\ lastFrame' = frame.id
           /\ CASE frame.topic = "updates"       -> LocationDispatch(ListenerLocation)
                [] frame.topic = "disconnection" -> DisconnectionDispatch(ListenerDisconnection)
                [] frame.topic = "status"        -> StatusDispatch(ListenerStatus)
    /\ NoDelta
    /\ UNCHANGED <<sent, refreshVars>>

Deliver ==
    /\ wire # <<>>
    /\ LET frame == Head(wire)
       IN  /\ wire' = Tail(wire)
           /\ lastFrame' = frame.id
           /\ CASE frame.topic = "updates"       -> LocationDispatch(ListenerLocation)
                [] frame.topic = "disconnection" -> DisconnectionDispatch(ListenerDisconnection)
                [] frame.topic = "status"        -> StatusDispatch(ListenerStatus)
    /\ NoDelta
    /\ UNCHANGED <<sent, refreshVars>>

(* a listener for one event registers while none of its kind is registered *)
OnceFree(callback) == \A reg \in 1..Len(issued) : issued[reg].cb # callback

DispatchNext ==
    \/ \E callback \in Listeners : onLocationUpdate(callback)
    \/ \E callback \in OnceListeners : OnceFree(callback) /\ onLocationUpdate(callback)
    \/ \E callback \in Listeners : onStatusUpdate(callback)
    \/ \E reg \in OtherRegs : Unsubscribe(reg)
    \/ \E topic \in Topics : BrokerSends(topic)
    \/ Deliver

DispatchSpec == StoreInit /\ [][DispatchNext]_vars

----------------------------------------------------------------------------
(* Properties of the WebSocketService *)

FailureOps == {"onStompError", "onWebSocketError", "onWebSocketClose"}

\* C1: connect() while isConnected is a no-op: the client is not activated
\* again, no topic subscription is added, and isConnected and
\* reconnectAttempts keep their values.
C1_IdempotentConnect ==
    [][(op' = "connect" /\ isConnected) =>
          /\ libCalls' = {}
          /\ subscriptions' = subscriptions
          /\ isConnected' = isConnected
          /\ reconnectAttempts' = reconnectAttempts
          /\ clientState' = clientState
          /\ webSocket' = webSocket]_vars

C1_Witness == op = "connect" /\ isConnected /\ subscriptions = TopicCount

\* C2: between two successful connects the Nth transport failure (N = 1..5)
\* has consumed exactly N attempts and the reconnect it scheduled has the
\* delay min(1000 * 2^(N-1), 30000).
C2_BackoffPerFailure ==
    (failures \in 1..maxReconnectAttempts) =>
        (reconnectAttempts = failures /\ lastDelay = ReconnectDelay(failures))

\* C3: once the 5th attempt has failed (budget used up, no service timer
\* pending, no socket, no disconnect() requested) no connection attempt
\* starts unless a caller invokes connect().
C3_IdleAfterExhaustion ==
    [][(Exhausted /\ op' # "connect") =>
          (webSocket' = "none" /\ "activate" \notin libCalls')]_vars

\* C4: after onConnect reconnectAttempts is 0, and the first failure reported
\* on a connected service schedules its reconnect as attempt 1 with the base
\* delay of 1000 ms.
C4_ResetOnConnect ==
    [][/\ (op' = "onConnect") => (reconnectAttempts' = 0 /\ isConnected')
       /\ (isConnected /\ op' \in FailureOps) =>
             (reconnectAttempts' = 1 /\ lastDelay' = BaseReconnectDelay)]_vars

C4_Witness ==
    /\ op \in FailureOps
    /\ reconnectAttempts = 1
    /\ Len(timers) >= 2
    /\ timers[1] > BaseReconnectDelay
    /\ timers[Len(timers)] = BaseReconnectDelay

\* C5: after disconnect() the service starts no reconnect attempt (it does
\* not activate the client and no new socket is opened) until a caller
\* invokes connect().
C5_DisconnectStaysDown ==
    [][(down /\ op' # "connect") =>
          /\ "activate" \notin libCalls'
          /\ (webSocket' = "connecting" => webSocket = "connecting")]_vars

----------------------------------------------------------------------------
(* Properties of the agent store *)

StreamOps == {"location", "disconnection", "status"}

\* C6: every record of the store satisfies
\* isOnline = (connectionStatus = "ONLINE") after every mutation of the store
\* (a record that lacks the flag counts as not online).
OnlineFlag(r) == "isOnline" \in DOMAIN r /\ r.isOnline

StatusOnline(r) == "connectionStatus" \in DOMAIN r /\ r.connectionStatus = "ONLINE"

C6_IsOnlineInvariant ==
    \A i \in 1..Len(agents) : OnlineFlag(agents[i]) = StatusOnline(agents[i])

C8_UnknownAgent ==
    [][/\ (op' = "status" /\ event'.agentId \notin Ids(agents)) => agents' = agents
       /\ (op' \in {"location", "disconnection"} /\ event'.agentId \notin Ids(agents)) =>
             /\ Len(agents') = Len(agents) + 1
             /\ SubSeq(agents', 1, Len(agents)) = agents
             /\ agents'[Len(agents')].agentId = event'.agentId]_vars

C8_Witness ==
    /\ op = "status"
    /\ event.agentId \notin Ids(agents)
    /\ Len(agents) = 1

\* C9: a location update for an agent in the store merges field by field:
\* the merged record has the fields of the stored record and of the event, a
\* field the event carries has the event's value, any other field keeps the
\* stored value, lastUpdate is the time of receipt, and every other record is
\* unchanged.
MergedFrom(new, old, update, receipt) ==
    /\ DOMAIN new = (DOMAIN old) \cup (DOMAIN update) \cup {"lastUpdate"}
    /\ \A f \in DOMAIN new :
          new[f] = IF f = "lastUpdate" THEN receipt
                   ELSE IF f \in DOMAIN update THEN update[f] ELSE old[f]

C9_FieldwiseMerge ==
    [][(op' \in {"location", "disconnection"} /\ event'.agentId \in Ids(agents)) =>
          /\ Len(agents') = Len(agents)
          /\ \A i \in 1..Len(agents) :
                IF agents[i].agentId = event'.agentId
                THEN MergedFrom(agents'[i], agents[i], event', now)
                ELSE agents'[i] = agents[i]]_vars

C9_Witness ==
    /\ op = "location"
    /\ "batteryLevel" \notin DOMAIN event
    /\ event.lastUpdate # now
    /\ \E i \in 1..Len(agents) :
          /\ agents[i].agentId = event.agentId
          /\ "batteryLevel" \in DOMAIN agents[i]
          /\ agents[i].batteryLevel = 80
          /\ agents[i].latitude = event.latitude
          /\ agents[i].latitude # StalePosition
          /\ agents[i].lastUpdate = now

C11_LastUpdateMonotone ==
    [][\A i \in 1..Len(agents), j \in 1..Len(agents') :
          agents'[j].agentId = agents[i].agentId =>
              agents'[j].lastUpdate >= agents[i].lastUpdate]_vars

----------------------------------------------------------------------------
(* Properties of the snapshot loader *)

LoadFailOps == {"loadRetry", "loadFail"}

\* C12: when consecutive snapshot fetches fail with a network (non-timeout)
\* error, the 1st and the 2nd failure in a row show no error to the user and
\* the 3rd failure in a row shows it.
C12_ErrorAfterThirdFailure ==
    (op \in LoadFailOps /\ event.name = "Error") =>
        /\ (consecutive \in {1, 2}) => ~errorShown
        /\ (consecutive = MAX_RETRY_ATTEMPTS) => errorShown

\* C13: one call of loadAgentLocations schedules at most 3 automatic retries:
\* no running or waiting call has more than 3 retries behind it, and the
\* failure of the call's 3rd retry shows the error and schedules nothing.
C13_BoundedRetries ==
    /\ \A i \in 1..Len(inflight) : inflight[i].n <= MAX_RETRY_ATTEMPTS
    /\ \A i \in 1..Len(retryTimers) : retryTimers[i].n <= MAX_RETRY_ATTEMPTS
    /\ (op \in LoadFailOps /\ event.n = MAX_RETRY_ATTEMPTS) => (op = "loadFail" /\ errorShown)

C15_PollOnlyWhenDisconnected ==
    [][(op' = "poll" /\ isConnected /\ wsConnected) => inflight' = inflight]_vars

----------------------------------------------------------------------------
(* Properties of the listener fan-out *)

\* C16: when a listener throws during the dispatch of a location, status or
\* connection event, every registered listener, those after it included, is
\* still invoked with the event, no exception leaves the fan-out, and the
\* handler's effect on isConnected and reconnectAttempts is what it is
\* without the throw (none for a location or status message).
C16_ThrowIsolated ==
    [][(dispatch'.throwers # {}) =>
          /\ dispatch'.delivered = CallbacksOf(dispatch'.ch)
          /\ ~dispatch'.propagated
          /\ (dispatch'.ch \in {"location", "status"}) =>
                (isConnected' = isConnected /\ reconnectAttempts' = reconnectAttempts)
          /\ (dispatch'.ch = "connection") => (isConnected' = notified')
          /\ (op' = "onConnect") => reconnectAttempts' = 0
          /\ (op' \in FailureOps) =>
                reconnectAttempts' = Min(reconnectAttempts + 1, maxReconnectAttempts)]_vars

C16_Witness ==
    /\ dispatch.ch = "connection"
    /\ 2 \in dispatch.throwers
    /\ dispatch.delivered = <<"handleConnectionChange", "f", "f">>
    /\ wsConnected = isConnected

\* C17: for every channel and callback, the callback is in the array once
\* per registration whose unsubscribe function has not been called (so an
\* unsubscribed registration gets no further event and every other one gets
\* every event), and calling an unsubscribe function a second time leaves
\* the three arrays as they are.
Count(callbacks, callback) == Cardinality({k \in 1..Len(callbacks) : callbacks[k] = callback})

Live(ch, callback) ==
    Cardinality({reg \in 1..Len(issued) :
                    /\ issued[reg] = [ch |-> ch, cb |-> callback]
                    /\ reg \notin unsubscribed})

C17_UnsubscribeExact ==
    [][/\ (op' = "unsubscribe" /\ event'.reg \in unsubscribed) =>
             UNCHANGED <<locationUpdateCallbacks, statusUpdateCallbacks, connectionCallbacks>>
       /\ \A ch \in Channels :
             \A callback \in Range(CallbacksOf(ch)) \cup Listeners :
                Count(CallbacksOf(ch), callback)' = Live(ch, callback)']_vars

\* C18: a message whose body fails to parse invokes no listener, schedules
\* no reconnect and leaves isConnected, reconnectAttempts, the subscriptions,
\* the registrations and the agent store unchanged; a well-formed message
\* that arrives after it is delivered to every listener and to the store.
C18_MalformedDropped ==
    [][/\ (op' = "malformed") =>
             /\ dispatch' = NoDispatch
             /\ UNCHANGED <<isConnected, reconnectAttempts, timers, clientState, webSocket,
                            subscriptions, agents, regVars>>
             /\ Delivering'
       /\ (dropped /\ op' = "location") =>
             /\ dispatch'.delivered = locationUpdateCallbacks
             /\ agents' = handleLocationUpdate(agents, event', now)
       /\ (dropped /\ op' = "status") =>
             /\ dispatch'.delivered = statusUpdateCallbacks
             /\ agents' = handleStatusUpdate(agents, event', now)]_vars

C18_Witness ==
    /\ dropped
    /\ op = "location"
    /\ Len(dispatch.delivered) >= 2
    /\ agents # <<>>

----------------------------------------------------------------------------
(* Properties of the map *)

\* C19: the map holds at most one Marker per agentId; a Marker is created
\* only for an agent that has none, an existing Marker is never destroyed or
\* built again but updated in place (position, icon colour, title), and a
\* location update that differs from the one before it only beyond the fifth
\* decimal place creates no Marker and leaves the Marker where it is.
C19_OneMarkerPerAgent ==
    [][/\ \A a \in AgentIds :
             /\ onMap'[a] <= 1
             /\ (onMap'[a] = 1) = (a \in DOMAIN markersRef')
       /\ \A a \in DOMAIN markersRef :
             /\ a \in DOMAIN markersRef'
             /\ onMap'[a] = onMap[a]
       /\ \A o \in markerOps' :
             /\ (o.kind = "create") = (o.agentId \notin DOMAIN markersRef)
             /\ \E k \in 1..Len(agents') :
                   /\ agents'[k].agentId = o.agentId
                   /\ markersRef'[o.agentId] = MarkerOf(Processed(agents'[k]))
             /\ (op' = "location" /\ o.agentId = event'.agentId /\ map
                   /\ o.raw[1] # 0 /\ Round5(o.raw[1]) = Round5(o.raw[2])) =>
                   (o.kind = "update" /\ o.to = o.from /\ onMap' = onMap)]_vars

C19_Witness ==
    /\ op = "location"
    /\ \E o \in markerOps :
          /\ o.agentId = event.agentId
          /\ o.kind = "update"
          /\ o.raw[1] # 0
          /\ o.raw[1] # o.raw[2]
          /\ o.from = o.to
          /\ onMap[o.agentId] = 1
          /\ markersRef[o.agentId].position # event.latitude

\* C20: the map asks for a viewport fit (centre on the single marker, or
\* fitBounds) only while the view is the overview; while an agent is focused
\* (mapView = "agent-detail") it issues no fit.
C20_FitOnlyInOverview == (fit # "none") => (mapView = "overview")

(* C21: after a viewport fit the zoom level is exactly 15 when the fit found *)
(* one marker, and at most 16 when it found two or more.                     *)
C21_FitZoom ==
    /\ fit = "center" => zoom = SingleMarkerZoom
    /\ fit = "fitBounds" => zoom <= MaxFitZoom

(* C22: used-up attempts are not final.  connect() called in the idle state  *)
(* after the 5th failed attempt activates the client; a handshake that       *)
(* succeeds leaves the service connected with reconnectAttempts = 0; and if  *)
(* the attempt that follows that connect() fails, the failure schedules a    *)
(* backoff retry again.                                                      *)
C22_ManualConnectRecovers ==
    [][/\ (Exhausted /\ op' = "connect" /\ client') => "activate" \in libCalls'
       /\ (op' = "onConnect") => (isConnected' /\ reconnectAttempts' = 0)
       /\ (manual /\ FreshFailure /\ op' \in FailureOps) =>
             (Len(timers') = Len(timers) + 1 /\ lastDelay' > 0)]_vars

(* C23: the store holds what reached it last.  A snapshot that arrives       *)
(* leaves every agent it lists with exactly the snapshot's record, also an   *)
(* agent a streaming update wrote while the load was in flight; a location   *)
(* update that arrives leaves its agent's record with every field of the     *)
(* update (lastUpdate excepted, which is the receipt time).                  *)
C23_LastWriterWins ==
    [][/\ (op' = "loadOk") =>
             \A k \in 1..Len(event') :
                 \E i \in 1..Len(agents') : agents'[i] = event'[k]
       /\ (op' = "location") =>
             \E i \in 1..Len(agents') :
                 /\ agents'[i].agentId = event'.agentId
                 /\ \A f \in DOMAIN event' \ {"lastUpdate"} :
                        f \in DOMAIN agents'[i] /\ agents'[i][f] = event'[f]]_vars

(* a snapshot arrived after an update that was written for an agent it      *)
(* lists while the load was in flight, and the record is the snapshot's     *)
C23_Witness ==
    /\ op = "loadOk"
    /\ \E k \in 1..Len(event) :
          /\ event[k].agentId \in deltas
          /\ \E i \in 1..Len(agents) : agents[i] = event[k]

(* C24: isConnected is true only while the client is active and its socket   *)
(* has completed the handshake.  It becomes true only in onConnect, it is    *)
(* false after a transport error, a protocol error, a close, the broker's    *)
(* disconnect or disconnect(), and every change of it is passed to the       *)
(* connection callbacks with its new value.                                  *)
C24_ConnectedMeansHandshaken ==
    /\ [](isConnected => (client /\ clientState = "ACTIVE" /\ webSocket = "open"))
    /\ [][/\ (isConnected' /\ ~isConnected) => op' = "onConnect"
          /\ (op' \in FailureOps \cup {"onDisconnect", "disconnect"}) => ~isConnected'
          /\ (isConnected' # isConnected) =>
                (notified' = isConnected' /\ dispatch'.ch = "connection")]_vars

(* an error event on a socket that was connected and subscribed *)
C24_Witness ==
    /\ op = "onWebSocketError"
    /\ subscriptions = TopicCount
    /\ ~isConnected
    /\ notified = FALSE

(* C25: within one session the frames are handled in the order the broker    *)
(* sent them (each handled frame is newer than the one before and older than *)
(* every frame still waiting), and the fan-out of one frame invokes the      *)
(* listeners in registration order: all of them when none unsubscribes       *)
(* during the fan-out, and in any case without changing their order.         *)
RECURSIVE IsSubSeq(_, _)
IsSubSeq(s, t) ==
    IF s = <<>> THEN TRUE
    ELSE IF t = <<>> THEN FALSE
    ELSE IF Head(s) = Head(t) THEN IsSubSeq(Tail(s), Tail(t))
    ELSE IsSubSeq(s, Tail(t))

C25_DeliveredInOrder ==
    [][(op' \in StreamOps) =>
          /\ lastFrame' > lastFrame
          /\ \A k \in 1..Len(wire') : wire'[k].id > lastFrame'
          /\ IsSubSeq(dispatch'.delivered, CallbacksOf(dispatch'.ch))
          /\ (Range(CallbacksOf(dispatch'.ch)) \cap OnceListeners = {}) =>
                dispatch'.delivered = CallbacksOf(dispatch'.ch)]_vars

(* the second frame is handled while the third waits, and three listeners    *)
(* get it in the order they registered                                       *)
C25_Witness ==
    /\ lastFrame = 2
    /\ wire # <<>>
    /\ dispatch.ch = "location"
    /\ dispatch.delivered = <<"handleLocationUpdate", "f", "u">>

(* C26: while an agent is focused, the centre handed to the map (and, once   *)
(* the map exists and the render has run, the centre of the map) is the      *)
(* position the agent store holds for that agent.                            *)
C26_CentreFollowsFocus ==
    (focusedAgent # <<>>) =>
        \A i \in 1..Len(agents) :
            (agents[i].agentId = focusedAgent.agentId) =>
                /\ CenterProp(focusedAgent) = agents[i].latitude
                /\ (map /\ fit = "none") => centre = agents[i].latitude

(* C27: at most one reconnect timer of the service is pending at any time. *)
C27_OneTimerPending == Len(timers) <= 1

(* C28: every callback that is in the array when the fan-out of a frame      *)
(* starts is invoked with it, once per registration, also when a callback    *)
(* calls its own unsubscribe function during that fan-out.                   *)
C28_NoListenerSkipped ==
    [][(op' \in StreamOps) =>
          \A callback \in Range(CallbacksOf(dispatch'.ch)) :
              Count(dispatch'.delivered, callback) = Count(CallbacksOf(dispatch'.ch), callback)]_vars

(* C29: once the map exists, the agents that have a marker are exactly the   *)
(* agents of the list passed to the map that have a usable position.         *)
C29_MarkersMatchList ==
    map => (DOMAIN markersRef = {a \in Ids(agents) : Round5(RawOf(agents, a)) # 0})

(* C30: at most one call of refreshData is in flight at any time. *)
C30_NoOverlap == Len(refreshes) <= 1

====
